---------------------------- MODULE Spec2Model ----------------------------
(***************************************************************************)
(* IPA subdomain discovery (src/providers/ipa/ipa_subdomains.c).           *)
(*                                                                         *)
(* The module models                                                       *)
(*   - the backend-wide subdomains context (struct ipa_subdomains_ctx):    *)
(*     last_refreshed, subdoms (num_subdoms is Len(subdoms)) and the three *)
(*     search-base lists;                                                  *)
(*   - the per-request run context (struct ipa_subdomains_req_ctx) and the *)
(*     chain of tevent callbacks that drives a run;                        *)
(*   - the pure helpers ipa_subdom_parse, ipa_subdomains_refresh and       *)
(*     ipa_ranges_parse_results.                                           *)
(*                                                                         *)
(* C strings are sequences of one-character strings.  A NULL pointer and a *)
(* pointer to freed memory are two reserved sequences that are no string.  *)
(***************************************************************************)
EXTENDS Integers, Sequences, FiniteSets, TLC

(***************************************************************************)
(* Bounds of the model.                                                    *)
(***************************************************************************)
\* longest fetched batch / cache snapshot drawn by the reconciler harness
MaxFetch == 2
\* longest search-base list of a stage
MaxBases == 2
\* seconds the clock may advance in one behaviour
MaxTicks == 5
\* number of be_req slots (requests that may be in flight together)
MaxRuns == 2

(***************************************************************************)
(* Program constants.                                                      *)
(***************************************************************************)
IPA_SUBDOMAIN_REFRESH_LIMIT == 5

NULL == <<"NULL">>
\* a pointer whose target was released with talloc_free
Dangling == <<"FREED">>

EOK == "EOK"
ENOMEM == "ENOMEM"
EINVAL == "EINVAL"
ENOENT == "ENOENT"
EIO == "EIO"
EAGAIN == "EAGAIN"

DP_ERR_OK == "DP_ERR_OK"
DP_ERR_FATAL == "DP_ERR_FATAL"
DP_ERR_OFFLINE == "DP_ERR_OFFLINE"

(***************************************************************************)
(* Strings.                                                                *)
(***************************************************************************)
\* toupper(3) on the characters that occur in the model
toupper(ch) ==
    CASE ch = "a" -> "A"
      [] ch = "d" -> "D"
      [] OTHER -> ch

\* name_to_realm: a copy of name with every character upper-cased
name_to_realm(name) == [p \in 1..Len(name) |-> toupper(name[p])]

\* strcasecmp(x, y) == 0: the comparison ignores the case
StrEqNoCase(x, y) == name_to_realm(x) = name_to_realm(y)

\* strcmp(x, y) == 0 on two valid strings
StrEq(x, y) == x = y

(***************************************************************************)
(* Subdomain records.                                                      *)
(***************************************************************************)
\* memset(&subdom, 0, sizeof(struct sysdb_subdom))
ZeroSubdom == [name |-> NULL, realm |-> NULL, flat_name |-> NULL, id |-> NULL]

ParseRes(r, sd) == [ret |-> r, subdom |-> sd]

\* strcmp(subdom->id, value) != 0, where subdom->id may point to freed
\* memory: then the comparison reads released storage and either answer
\* can come out; ubEq is the answer "equal" read from it.
IdDiffers(id, value, ubEq) ==
    IF id = Dangling THEN ~ubEq ELSE ~StrEq(id, value)

\* ipa_subdom_parse, lines 240-263: the identifier.  On a changed identifier
\* the old string is freed and flat_name (not id) is set to NULL (line 253):
\* id keeps pointing to the freed string, so the test of line 256 fails.
ParseId(attrs, sd, oom, ubEq) ==
    IF attrs.sid = NULL THEN ParseRes(ENOENT, sd)
    ELSE LET sd1 == IF sd.id # NULL /\ IdDiffers(sd.id, attrs.sid, ubEq)
                    THEN [sd EXCEPT !.id = Dangling, !.flat_name = NULL]
                    ELSE sd
         IN  IF sd1.id = NULL
             THEN IF oom THEN ParseRes(ENOMEM, sd1)
                  ELSE ParseRes(EOK, [sd1 EXCEPT !.id = attrs.sid])
             ELSE ParseRes(EOK, sd1)

\* ipa_subdom_parse, lines 217-238: the flat name
ParseFlat(attrs, sd, oom, ubEq) ==
    IF attrs.flat = NULL THEN ParseRes(ENOENT, sd)
    ELSE LET sd1 == IF sd.flat_name # NULL /\ ~StrEq(sd.flat_name, attrs.flat)
                    THEN [sd EXCEPT !.flat_name = NULL]
                    ELSE sd
         IN  IF sd1.flat_name = NULL
             THEN IF oom THEN ParseRes(ENOMEM, sd1)
                  ELSE ParseId(attrs, [sd1 EXCEPT !.flat_name = attrs.flat],
                               oom, ubEq)
             ELSE ParseId(attrs, sd1, oom, ubEq)

\* ipa_subdom_parse, lines 208-215: the realm
ParseRealm(attrs, sd, oom, ubEq) ==
    IF sd.realm = NULL
    THEN IF oom THEN ParseRes(ENOMEM, sd)
         ELSE ParseFlat(attrs, [sd EXCEPT !.realm = name_to_realm(sd.name)],
                        oom, ubEq)
    ELSE ParseFlat(attrs, sd, oom, ubEq)

\* ipa_subdom_parse(memctx, attrs, subdom).  oom: the first allocation the
\* call attempts fails.  The result is the return code and the record as
\* the call leaves it.
ipa_subdom_parse(attrs, sd, oom, ubEq) ==
    IF attrs.cn = NULL THEN ParseRes(ENOENT, sd)
    ELSE IF sd.name = NULL
         THEN IF oom THEN ParseRes(ENOMEM, sd)
              ELSE ParseRealm(attrs, [sd EXCEPT !.name = attrs.cn], oom, ubEq)
         ELSE IF ~StrEq(sd.name, attrs.cn) THEN ParseRes(EINVAL, sd)
              ELSE ParseRealm(attrs, sd, oom, ubEq)

(***************************************************************************)
(* The reconciler: ipa_subdomains_refresh.                                 *)
(***************************************************************************)
RECURSIVE FindReply(_, _, _, _)
\* lines 280-292: the first reply not yet handled whose cn equals name.
\* c = Len(reply) + 1 when there is none; ret # EOK when a reply without cn
\* is met before a match.
FindReply(reply, handled, name, c) ==
    IF c > Len(reply) THEN [ret |-> EOK, c |-> c]
    ELSE IF handled[c] THEN FindReply(reply, handled, name, c + 1)
    ELSE IF reply[c].cn = NULL THEN [ret |-> ENOENT, c |-> c]
    ELSE IF StrEq(reply[c].cn, name) THEN [ret |-> EOK, c |-> c]
    ELSE FindReply(reply, handled, name, c + 1)

\* lines 296-299: shift the entries after i down by one
RemoveAt(subs, i) == [j \in 1..(Len(subs) - 1) |-> IF j < i THEN subs[j] ELSE subs[j + 1]]

ScanRes(r, subs, handled, h) ==
    [ret |-> r, subs |-> subs, handled |-> handled, h |-> h]

RECURSIVE RefreshCached(_, _, _, _, _, _, _)
\* lines 279-311: the loop over the cached subdomains, from entry i on
RefreshCached(subs, reply, handled, i, h, oom, ub) ==
    IF i > Len(subs) THEN ScanRes(EOK, subs, handled, h)
    ELSE LET f == FindReply(reply, handled, subs[i].name, 1)
         IN  IF f.ret # EOK THEN ScanRes(f.ret, subs, handled, h)
             ELSE IF f.c > Len(reply)
             THEN RefreshCached(RemoveAt(subs, i), reply, handled, i, h, oom, ub)
             ELSE LET p == ipa_subdom_parse(reply[f.c], subs[i], oom, ub[f.c])
                  IN  IF p.ret # EOK THEN ScanRes(p.ret, subs, handled, h)
                      ELSE RefreshCached([subs EXCEPT ![i] = p.subdom], reply,
                                         [handled EXCEPT ![f.c] = TRUE],
                                         i + 1, h + 1, oom, ub)

\* a new entry is placed after the last one, which moves the end by one
AppendNewFront(subs, sd) == <<sd>> \o subs

\* lines 336-343: i = ctx->num_subdoms; fill slot i; ctx->num_subdoms++
AppendNew(subs, sd) == Append(subs, sd)

RECURSIVE RefreshNew(_, _, _, _, _)
\* lines 332-344: append the replies not handled, from reply c on
RefreshNew(subs, reply, handled, c, oom) ==
    IF c > Len(reply) THEN [ret |-> EOK, subs |-> subs]
    ELSE IF handled[c] THEN RefreshNew(subs, reply, handled, c + 1, oom)
    ELSE LET p == ipa_subdom_parse(reply[c], ZeroSubdom, oom, FALSE)
         IN  IF p.ret # EOK THEN [ret |-> p.ret, subs |-> subs]
             ELSE RefreshNew(AppendNew(subs, p.subdom), reply, handled, c + 1,
                             oom)

\* the done label stamps the time of the call on every outcome
RefreshDoneStamped(r, subs, chg, t) ==
    [ret |-> r, subdoms |-> IF r # EOK THEN <<>> ELSE subs,
     last_refreshed |-> t, changes |-> chg]

\* lines 348-357: the done label
RefreshDone(r, subs, chg, t) ==
    IF r # EOK
    THEN [ret |-> r, subdoms |-> <<>>, last_refreshed |-> 0, changes |-> chg]
    ELSE [ret |-> EOK, subdoms |-> subs, last_refreshed |-> t, changes |-> chg]

\* ipa_subdomains_refresh(ctx, count, reply, &changes) called at time t with
\* ctx->subdoms = subs and *changes = FALSE.  oom: the first allocation the
\* call attempts fails; ub[c]: what a comparison against a freed identifier
\* answers when reply c is parsed.
ipa_subdomains_refresh(subs, reply, oom, ub, t) ==
    LET a == RefreshCached(subs, reply, [c \in 1..Len(reply) |-> FALSE], 1, 0,
                           oom, ub)
    IN  IF a.ret # EOK THEN RefreshDone(a.ret, a.subs, FALSE, t)
        ELSE IF Len(reply) = a.h THEN RefreshDone(EOK, a.subs, FALSE, t)
        ELSE IF oom THEN RefreshDone(ENOMEM, a.subs, TRUE, t)
        ELSE LET b == RefreshNew(a.subs, reply, a.handled, 1, oom)
             IN  RefreshDone(b.ret, b.subs, TRUE, t)

(***************************************************************************)
(* Values the model draws its inputs from.                                 *)
(***************************************************************************)
NameA == <<"a", "d">>
NameB == <<"A", "D">>
Names == {NameA, NameB}
Flat1 == <<"F", "1">>
Flat2 == <<"F", "2">>
Sid1 == <<"S", "1">>
Sid2 == <<"S", "2">>

\* a raw search result of the slave stage: the attributes cn, ipaNTFlatName
\* and ipaNTTrustedDomainSID, NULL for an attribute the entry lacks
Attrs(cn, flat, sid) == [cn |-> cn, flat |-> flat, sid |-> sid]

Subdom(name, flat, id) ==
    [name |-> name, realm |-> name_to_realm(name), flat_name |-> flat, id |-> id]

\* (flat name, identifier) pairs the directory may report for a domain
Variants == {<<Flat1, Sid1>>, <<Flat2, Sid1>>, <<Flat1, Sid2>>}
GoodReplies == {Attrs(NameA, v[1], v[2]) : v \in Variants}
               \cup {Attrs(NameB, Flat1, Sid1)}
BadReplies == {Attrs(NULL, Flat1, Sid1), Attrs(NameA, NULL, Sid1),
               Attrs(NameA, Flat1, NULL)}
Replies == GoodReplies \cup BadReplies

SeqsUpTo(S, n) == UNION {[1..k -> S] : k \in 0..n}

\* The records a cache entry can hold: what a parse of a good reply leaves,
\* and what line 253 leaves after an identifier change (flat_name NULL, id
\* freed), possibly with flat_name filled in again by a later refresh.
CacheEntries ==
    {Subdom(r.cn, r.flat, r.sid) : r \in GoodReplies}
    \cup {Subdom(NameA, f, Dangling) : f \in {NULL, Flat1, Flat2}}

\* The answers the comparisons against freed identifiers may give in one
\* refresh: ub[c] is read only when reply c is parsed into a cached entry
\* whose id is freed, so it is drawn there and fixed elsewhere.
UbChoices(subs, reply) ==
    {ub \in [1..Len(reply) -> BOOLEAN] :
        \A c \in 1..Len(reply) :
            ub[c] => \E i \in 1..Len(subs) :
                        subs[i].id = Dangling /\ subs[i].name = reply[c].cn}

(***************************************************************************)
(* The range parser: ipa_ranges_parse_results.                             *)
(***************************************************************************)
\* a numeric attribute the entry lacks (sysdb_attrs_get_uint32_t: ENOENT)
Absent == -1

\* a raw search result of the ranges stage
RangeAttrs(cn, sid, base_id, size, base_rid, sec_rid) ==
    [cn |-> cn, sid |-> sid, base_id |-> base_id, id_range_size |-> size,
     base_rid |-> base_rid, secondary_base_rid |-> sec_rid]

\* a numeric field that keeps the marker of an absent attribute
Uint32Raw(v) == v

\* a numeric field after sysdb_attrs_get_uint32_t on a talloc_zero'ed record
Uint32Field(v) == IF v = Absent THEN 0 ELSE v

\* lines 96-155: one range_info from one raw result
RangeInfo(a) ==
    [name |-> a.cn, trusted_dom_sid |-> a.sid,
     base_id |-> Uint32Field(a.base_id),
     id_range_size |-> Uint32Field(a.id_range_size),
     base_rid |-> Uint32Field(a.base_rid),
     secondary_base_rid |-> Uint32Field(a.secondary_base_rid)]

\* a parse that skips the results without cn and returns the others
ParseNamedOnly(reply, oom) ==
    IF oom THEN [ret |-> ENOMEM, list |-> <<>>]
    ELSE LET named == SelectSeq(reply, LAMBDA a : a.cn # NULL)
         IN  [ret |-> EOK, list |-> [c \in 1..Len(named) |-> RangeInfo(named[c])]]

\* ipa_ranges_parse_results(mem_ctx, count, reply, &range_list).  oom: the
\* first allocation fails (the array of line 89 is always allocated).  On
\* failure no list is returned (line 164).
ipa_ranges_parse_results(reply, oom) ==
    IF oom THEN [ret |-> ENOMEM, list |-> <<>>]
    ELSE IF \E c \in 1..Len(reply) : reply[c].cn = NULL
    THEN [ret |-> ENOENT, list |-> <<>>]
    ELSE [ret |-> EOK, list |-> [c \in 1..Len(reply) |-> RangeInfo(reply[c])]]

(***************************************************************************)
(* State.                                                                  *)
(***************************************************************************)
VARIABLES
    now,             \* time(NULL)
    last_refreshed,  \* ctx->last_refreshed
    subdoms,         \* ctx->subdoms, ctx->num_subdoms = Len(subdoms)
    bases,           \* lengths of ctx->search_bases, ->ranges_search_bases,
                     \* ->master_search_bases (each list is NULL-terminated)
    sysdb,           \* the persistent cache: subdomains, ranges, master info
    run,             \* per be_req slot: the request and its req_ctx
    single,          \* the caller serializes invocations (single flight)
    rec              \* the reconciler harness: inputs and results of a call

vars == <<now, last_refreshed, subdoms, bases, sysdb, run, single, rec>>

Runs == 1..MaxRuns

\* time(NULL) when the backend starts: any clock value of at least the
\* refresh limit behaves alike against last_refreshed = 0
StartTime == IPA_SUBDOMAIN_REFRESH_LIMIT

\* error codes of the collaborators
ECONNREFUSED == "ECONNREFUSED"
ETIMEDOUT == "ETIMEDOUT"
EFAULT == "EFAULT"

\* the name of the backend's own domain
DomName == <<"i", "p", "a">>
MasterFlat == <<"I", "P", "A">>
MasterSid == <<"S", "0">>

MasterIncomplete == [name |-> DomName, flat_name |-> NULL, id |-> NULL]
MasterComplete == [name |-> DomName, flat_name |-> MasterFlat, id |-> MasterSid]

\* no connection result has been received
NoConn == [ret |-> "none", dp_error |-> "none"]

\* no search result has been received
NoRecv == [ret |-> "none", count |-> 0, reply |-> <<>>]

\* ret, reply_count and reply of a search result
Recv(res) == [ret |-> res.ret, count |-> Len(res.reply), reply |-> res.reply]

\* a be_req slot nobody has submitted, and the req_ctx fields as
\* ipa_subdomains_handler sets them (lines 427-434)
IdleRun ==
    [invoked |-> FALSE,      \* the handler was called with this be_req
     alive |-> FALSE,        \* req_ctx is allocated and not yet freed
     pend |-> "none",        \* the tevent request whose callback is awaited
     conn |-> NoConn,        \* what sdap_id_op_connect_recv returned
     recv |-> NoRecv,        \* what the last sdap_get_generic_recv returned
     search_bases |-> "slave",
     search_base_iter |-> 0,
     reply |-> <<>>,         \* ctx->reply, ctx->reply_count = Len(reply)
     replies |-> 0,          \* calls of be_req->fn
     dp_err |-> DP_ERR_OK,   \* arguments of the last call of be_req->fn
     result |-> EOK,
     log |-> <<>>]           \* the calls the run made, in order

Ev(e, i) == [e |-> e, i |-> i]

Logged(q, e, i) == [q EXCEPT !.log = Append(@, Ev(e, i))]

\* the run is between its invocation and its completion callback
Active(q) == q.invoked /\ q.replies = 0

\* be_req->fn has been called and has not returned yet
InCallback(q) == q.replies > 0

(***************************************************************************)
(* Inputs of the callbacks.                                                *)
(***************************************************************************)
\* sdap_id_op_connect_recv: ret and dp_error
ConnectResults ==
    {[ret |-> EOK, dp_error |-> DP_ERR_OK],
     [ret |-> ECONNREFUSED, dp_error |-> DP_ERR_OFFLINE],
     [ret |-> ECONNREFUSED, dp_error |-> DP_ERR_FATAL]}

ReplyA == Attrs(NameA, Flat1, Sid1)
ReplyA2 == Attrs(NameA, Flat1, Sid2)
ReplyB == Attrs(NameB, Flat1, Sid1)
ReplyNoCn == Attrs(NULL, Flat1, Sid1)

\* sdap_get_generic_recv of a slave-stage search: ret and the entries
SlaveResults ==
    {[ret |-> EOK, reply |-> b] :
        b \in {<<>>, <<ReplyA>>, <<ReplyA2>>, <<ReplyB>>, <<ReplyNoCn>>}}
    \cup {[ret |-> ETIMEDOUT, reply |-> <<>>]}

Range1 == RangeAttrs(<<"R", "1">>, NULL, 1000, 200000, Absent, Absent)
Range2 == RangeAttrs(<<"R", "2">>, Sid1, 300000, 200000, 0, 100000)
RangeNoCn == RangeAttrs(NULL, NULL, 1000, 200000, Absent, Absent)

\* sdap_get_generic_recv of a ranges-stage search
RangeResults ==
    {[ret |-> EOK, reply |-> b] :
        b \in {<<Range1, Range2>>, <<Range1, RangeNoCn>>}}
    \cup {[ret |-> ETIMEDOUT, reply |-> <<>>]}

\* a raw result of the master stage: ipaNTFlatName, ipaNTSecurityIdentifier
MasterAttrs(flat, sid) == [flat |-> flat, sid |-> sid]

\* sdap_get_generic_recv of a master-stage search
MasterResults ==
    {[ret |-> EOK, reply |-> b] :
        b \in {<<>>, <<MasterAttrs(MasterFlat, MasterSid)>>,
               <<MasterAttrs(NULL, MasterSid)>>,
               <<MasterAttrs(MasterFlat, NULL)>>}}
    \cup {[ret |-> ETIMEDOUT, reply |-> <<>>]}

\* what a call into the persistent cache returns
StoreRets == {EOK, EFAULT}

(***************************************************************************)
(* The persistent cache.                                                   *)
(***************************************************************************)
\* sysdb_master_domain_add_info: the flat name and identifier are stored;
\* the name is the one the cache holds for the domain
sysdb_master_domain_add_info(master, flat, sid) ==
    [master EXCEPT !.flat_name = flat, !.id = sid]

\* a list without a base is searched as if it had one
NBasesAtLeastOne(list) == IF bases[list] = 0 THEN 1 ELSE bases[list]

(***************************************************************************)
(* The run.                                                                *)
(***************************************************************************)
NBases(list) == bases[list]

\* the callback is called while the run context is still allocated
FinishKeepCtx(q, dp_error, ret) ==
    [Logged(q, "reply", 0)
        EXCEPT !.pend = "none", !.replies = @ + 1,
               !.dp_err = dp_error, !.result = ret]

\* the done/fail labels: talloc_free(ctx), then
\* ipa_subdomains_reply(be_req, dp_error, ret), which calls be_req->fn.
\* Freeing the context frees the requests allocated on it.
Finish(q, dp_error, ret) ==
    [Logged(Logged(q, "free", 0), "reply", 0)
        EXCEPT !.alive = FALSE, !.pend = "none", !.replies = @ + 1,
               !.dp_err = dp_error, !.result = ret]

\* the done label reports success whatever ret is
DpErrorOk(ret) == DP_ERR_OK

\* the done labels of lines 690-695 and 765-770
DpErrorOf(ret) == IF ret = EOK THEN DP_ERR_OK ELSE DP_ERR_FATAL

\* the cursor is not compared against the list: one base per stage
HandlerGetOneBase(q, type, oom) ==
    IF q.search_base_iter >= 1
    THEN [ret |-> EOK, q |-> q]
    ELSE IF oom THEN [ret |-> ENOMEM, q |-> q]
    ELSE [ret |-> EAGAIN,
          q |-> [Logged(q, "search_" \o type, q.search_base_iter + 1)
                    EXCEPT !.pend = type]]

\* the searches on the next two bases are issued at once
HandlerGetTwo(q, type, oom) ==
    IF q.search_base_iter >= NBases(q.search_bases)
    THEN [ret |-> EOK, q |-> q]
    ELSE IF oom THEN [ret |-> ENOMEM, q |-> q]
    ELSE [ret |-> EAGAIN,
          q |-> [Logged(Logged(q, "search_" \o type, q.search_base_iter + 1),
                        "search_" \o type, q.search_base_iter + 2)
                    EXCEPT !.pend = type]]

\* every search goes to the first base of the list
HandlerGetFirstBase(q, type, oom) ==
    IF q.search_base_iter >= NBases(q.search_bases)
    THEN [ret |-> EOK, q |-> q]
    ELSE IF oom THEN [ret |-> ENOMEM, q |-> q]
    ELSE [ret |-> EAGAIN,
          q |-> [Logged(q, "search_" \o type, 1) EXCEPT !.pend = type]]

\* ipa_subdomains_handler_get(ctx, type).  oom: building the filter or the
\* request fails.  EAGAIN: a search on base search_base_iter is in flight and
\* the callback of the stage awaits it.
ipa_subdomains_handler_get(q, type, oom) ==
    IF q.search_base_iter >= NBases(q.search_bases)
    THEN [ret |-> EOK, q |-> q]
    ELSE IF oom THEN [ret |-> ENOMEM, q |-> q]
    ELSE [ret |-> EAGAIN,
          q |-> [Logged(q, "search_" \o type, q.search_base_iter + 1)
                    EXCEPT !.pend = type]]

\* the gate skips a run that starts exactly at the limit too
GateSkipsAtLimit(last, t) == last >= t - IPA_SUBDOMAIN_REFRESH_LIMIT

\* the gate also skips an invocation made while a run is in flight
GateSkipsBusy(last, t) ==
    \/ last > t - IPA_SUBDOMAIN_REFRESH_LIMIT
    \/ \E x \in Runs : Active(run[x])

\* the refresh gate, line 416
GateSkips(last, t) == last > t - IPA_SUBDOMAIN_REFRESH_LIMIT

HandlerFaults == {"none", "req_ctx", "op_create", "connect_send"}

\* the slot a new be_req takes
FreeSlots == {r \in Runs : ~Active(run[r]) /\ ~run[r].alive}

\* ipa_subdomains_handler(be_req)
ipa_subdomains_handler(r) ==
    /\ \A x \in Runs : ~InCallback(run[x])
    /\ FreeSlots # {}
    /\ r = CHOOSE x \in FreeSlots : \A y \in FreeSlots : x <= y
    /\ single => \A x \in Runs : ~Active(run[x])
    /\ \E ctx_ok \in BOOLEAN, fault \in HandlerFaults :
        \E q0 \in {[IdleRun EXCEPT !.invoked = TRUE]} :
          run' = [run EXCEPT ![r] =
            IF ~ctx_ok
            THEN Finish(Logged(q0, "ctx_null", 0), DP_ERR_FATAL, EINVAL)
            ELSE IF GateSkips(last_refreshed, now)
            THEN Finish(Logged(q0, "gate_skip", 0), DP_ERR_OK, EOK)
            ELSE IF fault = "req_ctx"
            THEN Finish(Logged(q0, "gate_pass", 0), DP_ERR_FATAL, ENOMEM)
            ELSE IF fault = "op_create"
            THEN Finish([Logged(q0, "gate_pass", 0) EXCEPT !.alive = TRUE],
                        DP_ERR_FATAL, ENOMEM)
            ELSE IF fault = "connect_send"
            THEN Finish([Logged(Logged(q0, "gate_pass", 0), "connect", 0)
                            EXCEPT !.alive = TRUE], DP_ERR_FATAL, ENOMEM)
            ELSE [Logged(Logged(q0, "gate_pass", 0), "connect", 0)
                     EXCEPT !.alive = TRUE, !.pend = "connect"]]
    /\ UNCHANGED <<now, last_refreshed, subdoms, bases, sysdb, single, rec>>

\* the connection failed, but a failure while the backend is offline is not
\* reported as a hard failure
ConnFailedFatal(q, res) == Finish(q, DP_ERR_FATAL, res.ret)

\* lines 478-484: the fail label with the dp_error and ret of the connection
ConnFailed(q, res) == Finish(q, res.dp_error, res.ret)

\* ipa_subdomains_get_conn_done(req)
ipa_subdomains_get_conn_done(r) ==
    /\ run[r].pend = "connect"
    /\ \E res \in ConnectResults, oom \in BOOLEAN :
        \E q0 \in {[run[r] EXCEPT !.pend = "none", !.conn = res]} :
          run' = [run EXCEPT ![r] =
            IF res.ret # EOK THEN ConnFailed(q0, res)
            ELSE LET g == ipa_subdomains_handler_get(q0, "slave", oom)
                 IN  IF g.ret # EOK /\ g.ret # EAGAIN
                     THEN Finish(g.q, res.dp_error, g.ret)
                     ELSE g.q]
    /\ UNCHANGED <<now, last_refreshed, subdoms, bases, sysdb, single, rec>>

SlaveFaults == {"none", "reply", "get_slave", "refresh", "get_ranges"}

\* ipa_subdomains_handler_done, lines 592-624: the reconciliation step and
\* the start of the ranges stage, on the run q whose slave bases are exhausted
SlaveExhausted(r, q, fault, ub, store) ==
    \E rf \in {ipa_subdomains_refresh(subdoms, q.reply, fault = "refresh",
                                      ub, now)} :
      \E q1 \in {Logged(q, "refresh", IF rf.changes THEN 1 ELSE 0)} :
        /\ subdoms' = rf.subdoms
        /\ last_refreshed' = rf.last_refreshed
        /\ IF rf.ret # EOK
           THEN /\ run' = [run EXCEPT ![r] = Finish(q1, DP_ERR_FATAL, rf.ret)]
                /\ UNCHANGED sysdb
           ELSE IF rf.changes /\ store # EOK
           THEN /\ run' = [run EXCEPT ![r] =
                    Finish(Logged(q1, "store_subdoms", Len(rf.subdoms)),
                           DP_ERR_FATAL, store)]
                /\ UNCHANGED sysdb
           ELSE \E q2 \in {[(IF rf.changes
                             THEN Logged(q1, "store_subdoms", Len(rf.subdoms))
                             ELSE q1)
                               EXCEPT !.search_base_iter = 0,
                                      !.search_bases = "ranges"]} :
                  \E g \in {ipa_subdomains_handler_get(q2, "ranges",
                                                       fault = "get_ranges")} :
                    /\ sysdb' = IF rf.changes
                                THEN [sysdb EXCEPT !.subdoms = rf.subdoms]
                                ELSE sysdb
                    /\ run' = [run EXCEPT ![r] =
                         IF g.ret = EAGAIN THEN g.q
                         ELSE IF g.ret # EOK
                         THEN Finish(g.q, DP_ERR_FATAL, g.ret)
                         ELSE Finish(g.q, DP_ERR_FATAL, EINVAL)]

\* ipa_subdomains_handler_done(req)
ipa_subdomains_handler_done(r) ==
    /\ run[r].pend = "slave"
    /\ \E res \in SlaveResults, fault \in SlaveFaults, store \in StoreRets :
        \E q0 \in {[run[r] EXCEPT !.pend = "none", !.recv = Recv(res)]} :
          IF res.ret # EOK
          THEN /\ run' = [run EXCEPT ![r] = Finish(q0, DP_ERR_FATAL, res.ret)]
               /\ UNCHANGED <<last_refreshed, subdoms, sysdb>>
          ELSE IF Len(res.reply) > 0 /\ fault = "reply"
          THEN /\ run' = [run EXCEPT ![r] = Finish(q0, DP_ERR_FATAL, ENOMEM)]
               /\ UNCHANGED <<last_refreshed, subdoms, sysdb>>
          ELSE \E q1 \in {[q0 EXCEPT !.reply = @ \o res.reply,
                                     !.search_base_iter = @ + 1]} :
                 \E g \in {ipa_subdomains_handler_get(q1, "slave",
                                                      fault = "get_slave")} :
                   IF g.ret = EAGAIN
                   THEN /\ run' = [run EXCEPT ![r] = g.q]
                        /\ UNCHANGED <<last_refreshed, subdoms, sysdb>>
                   ELSE IF g.ret # EOK
                   THEN /\ run' = [run EXCEPT ![r] =
                                      Finish(g.q, DP_ERR_FATAL, g.ret)]
                        /\ UNCHANGED <<last_refreshed, subdoms, sysdb>>
                   ELSE \E ub \in UbChoices(subdoms, q1.reply) :
                          SlaveExhausted(r, q1, fault, ub, store)
    /\ UNCHANGED <<now, bases, single, rec>>

MasterInfoComplete(info) ==
    ~(info.flat_name = NULL \/ info.id = NULL \/ info.name = NULL)

\* a failure of the ranges or master stage clears the cache and the gate
StageFrameReset(r) ==
    IF run'[r].replies = 1 /\ run'[r].dp_err = DP_ERR_FATAL
    THEN last_refreshed' = 0 /\ subdoms' = <<>>
    ELSE UNCHANGED <<last_refreshed, subdoms>>

\* every callback of the ranges or master stage stamps the gate
StageFrameStamp(r) == last_refreshed' = now /\ UNCHANGED subdoms

\* the callbacks of the ranges and master stages, their done labels
\* included (lines 690-695, 765-770), do not write ctx->sd_ctx
StageFrame(r) == UNCHANGED <<last_refreshed, subdoms>>

RangesFaults == {"none", "parse", "get_master"}

\* ipa_subdomains_handler_ranges_done(req)
ipa_subdomains_handler_ranges_done(r) ==
    /\ run[r].pend = "ranges"
    /\ \E res \in RangeResults, fault \in RangesFaults,
          store \in StoreRets, info_ret \in StoreRets :
        \E q0 \in {[run[r] EXCEPT !.pend = "none", !.recv = Recv(res)]} :
          IF res.ret # EOK
          THEN /\ run' = [run EXCEPT ![r] = Finish(q0, DP_ERR_FATAL, res.ret)]
               /\ UNCHANGED sysdb
          ELSE \E pr \in {ipa_ranges_parse_results(res.reply, fault = "parse")} :
                \E q1 \in {Logged(q0, "parse_ranges", Len(res.reply))} :
                 IF pr.ret # EOK
                 THEN /\ run' = [run EXCEPT ![r] =
                                    Finish(q1, DP_ERR_FATAL, pr.ret)]
                      /\ UNCHANGED sysdb
                 ELSE IF store # EOK
                 THEN /\ run' = [run EXCEPT ![r] =
                            Finish(Logged(q1, "store_ranges", Len(pr.list)),
                                   DP_ERR_FATAL, store)]
                      /\ UNCHANGED sysdb
                 ELSE /\ sysdb' = [sysdb EXCEPT !.ranges = pr.list]
                      /\ \E q2 \in {Logged(Logged(q1, "store_ranges",
                                                  Len(pr.list)),
                                           "get_master", 0)} :
                           run' = [run EXCEPT ![r] =
                             IF info_ret # EOK
                             THEN Finish(q2, DP_ERR_FATAL, info_ret)
                             ELSE IF MasterInfoComplete(sysdb.master)
                             THEN Finish(q2, DP_ERR_OK, EOK)
                             ELSE LET g == ipa_subdomains_handler_get(
                                             [q2 EXCEPT
                                                !.search_base_iter = 0,
                                                !.search_bases = "master"],
                                             "master", fault = "get_master")
                                  IN  IF g.ret = EAGAIN THEN g.q
                                      ELSE Finish(g.q, DpErrorOf(g.ret), g.ret)]
    /\ StageFrame(r)
    /\ UNCHANGED <<now, bases, single, rec>>

MasterFaults == {"none", "alloc", "get_master"}

\* ipa_subdomains_handler_master_done(req)
ipa_subdomains_handler_master_done(r) ==
    /\ run[r].pend = "master"
    /\ \E res \in MasterResults, fault \in MasterFaults, store \in StoreRets :
        \E q0 \in {[run[r] EXCEPT !.pend = "none", !.recv = Recv(res)]} :
          IF res.ret # EOK
          THEN /\ run' = [run EXCEPT ![r] = Finish(q0, DP_ERR_FATAL, res.ret)]
               /\ UNCHANGED sysdb
          ELSE IF Len(res.reply) > 0
          THEN IF fault = "alloc"
               THEN /\ run' = [run EXCEPT ![r] =
                                  Finish(q0, DP_ERR_FATAL, ENOMEM)]
                    /\ UNCHANGED sysdb
               ELSE IF res.reply[1].flat = NULL \/ res.reply[1].sid = NULL
               THEN /\ run' = [run EXCEPT ![r] =
                                  Finish(q0, DP_ERR_FATAL, ENOENT)]
                    /\ UNCHANGED sysdb
               ELSE /\ run' = [run EXCEPT ![r] =
                          Finish(Logged(q0, "store_master", 0),
                                 DpErrorOf(store), store)]
                    /\ sysdb' = IF store = EOK
                                THEN [sysdb EXCEPT !.master =
                                        sysdb_master_domain_add_info(
                                            @, res.reply[1].flat,
                                            res.reply[1].sid)]
                                ELSE sysdb
          ELSE /\ \E g \in {ipa_subdomains_handler_get(
                               [q0 EXCEPT !.search_base_iter = @ + 1],
                               "master", fault = "get_master")} :
                    run' = [run EXCEPT ![r] =
                      IF g.ret = EAGAIN THEN g.q
                      ELSE IF g.ret # EOK
                      THEN Finish(g.q, DP_ERR_FATAL, g.ret)
                      ELSE Finish(g.q, DP_ERR_FATAL, EIO)]
               /\ UNCHANGED sysdb
    /\ StageFrame(r)
    /\ UNCHANGED <<now, bases, single, rec>>

\* be_req->fn returns: the caller has sent its answer and freed the be_req,
\* still inside the callback that completed the run
Release(r) ==
    /\ InCallback(run[r])
    /\ run' = [run EXCEPT ![r] = IdleRun]
    /\ UNCHANGED <<now, last_refreshed, subdoms, bases, sysdb, single, rec>>

\* a second passes (between two callbacks of the event loop)
Tick ==
    /\ \A x \in Runs : ~InCallback(run[x])
    /\ now < StartTime + MaxTicks
    /\ now' = now + 1
    /\ UNCHANGED <<last_refreshed, subdoms, bases, sysdb, run, single, rec>>

(***************************************************************************)
(* The reconciler on its own: SpecRec draws a cache snapshot and a fetched *)
(* batch, applies ipa_subdomains_refresh, and applies it once more with    *)
(* the same batch.                                                         *)
(***************************************************************************)
\* pc: calls made; F: the batch; Cin: the snapshot drawn; C0: the snapshot
\* before the last call; ret, changes: what the last call returned; ret1:
\* what the call before it returned
RecIdle == [pc |-> 0, F |-> <<>>, Cin |-> <<>>, C0 |-> <<>>, ret |-> EOK,
            changes |-> FALSE, ret1 |-> EOK]

\* ipa_subdom_init: the context is zeroed and the search bases are taken
\* from the options; no request exists
InitCtx ==
    /\ now = StartTime
    /\ last_refreshed = 0
    /\ run = [r \in Runs |-> IdleRun]

InitRec ==
    /\ InitCtx
    /\ single = TRUE
    /\ bases = [slave |-> 1, ranges |-> 1, master |-> 1]
    /\ sysdb = [subdoms |-> <<>>, ranges |-> <<>>, master |-> MasterIncomplete]
    /\ subdoms \in SeqsUpTo(CacheEntries, MaxFetch)
    /\ \E F \in SeqsUpTo(Replies, MaxFetch) :
          rec = [RecIdle EXCEPT !.F = F, !.Cin = subdoms, !.C0 = subdoms]

\* one call of ipa_subdomains_refresh on the context, with the batch rec.F
RecCall(pc, oom, ub) ==
    /\ \E r \in {ipa_subdomains_refresh(subdoms, rec.F, oom, ub, now)} :
           /\ subdoms' = r.subdoms
           /\ last_refreshed' = r.last_refreshed
           /\ rec' = [rec EXCEPT !.pc = pc + 1, !.C0 = subdoms, !.ret = r.ret,
                                 !.changes = r.changes, !.ret1 = rec.ret]
    /\ UNCHANGED <<now, bases, sysdb, run, single>>

RecApply ==
    /\ rec.pc = 0
    /\ \E oom \in BOOLEAN, ub \in UbChoices(subdoms, rec.F) : RecCall(0, oom, ub)

RecAgain ==
    /\ rec.pc = 1
    /\ \E oom \in BOOLEAN, ub \in UbChoices(subdoms, rec.F) : RecCall(1, oom, ub)

NextRec == RecApply \/ RecAgain

SpecRec == InitRec /\ [][NextRec]_vars

(***************************************************************************)
(* The range parser alone: ipa_ranges_parse_results is called once on a    *)
(* batch of raw results.                                                   *)
(***************************************************************************)
RangeNames == {<<"R", "1">>, <<"R", "2">>, NULL}

\* the raw results a ranges search can return: every attribute but cn may
\* be absent
RangeEntries ==
    {RangeAttrs(cn, sid, ids[1], ids[2], rids[1], rids[2]) :
        cn \in RangeNames, sid \in {NULL, Sid1},
        ids \in {<<Absent, Absent>>, <<1000, 200000>>, <<1000, Absent>>,
                 <<Absent, 200000>>},
        rids \in {<<Absent, Absent>>, <<0, 100000>>}}

InitRanges ==
    /\ InitCtx
    /\ single = TRUE
    /\ bases = [slave |-> 1, ranges |-> 1, master |-> 1]
    /\ sysdb = [subdoms |-> <<>>, ranges |-> <<>>, master |-> MasterIncomplete]
    /\ subdoms = <<>>
    /\ \E b \in SeqsUpTo(RangeEntries, MaxFetch) :
          rec = [pc |-> 0, reply |-> b, oom |-> FALSE, ret |-> EOK,
                 list |-> <<>>]

\* one call of ipa_ranges_parse_results on the batch rec.reply
RangesParse ==
    /\ rec.pc = 0
    /\ \E oom \in BOOLEAN :
         \E pr \in {ipa_ranges_parse_results(rec.reply, oom)} :
           rec' = [rec EXCEPT !.pc = 1, !.oom = oom, !.ret = pr.ret,
                              !.list = pr.list]
    /\ UNCHANGED <<now, last_refreshed, subdoms, bases, sysdb, run, single>>

NextRanges == RangesParse

SpecRanges == InitRanges /\ [][NextRanges]_vars

(***************************************************************************)
(* The backend: requests arrive one after the other (Spec), as the caller  *)
(* is required to serialize them.                                          *)
(***************************************************************************)
\* The search-base lists the options may configure: every list of the
\* longest length, or one of them shorter (possibly empty).
Configs ==
    {c \in [{"slave", "ranges", "master"} -> 0..MaxBases] :
        Cardinality({l \in DOMAIN c : c[l] # MaxBases}) <= 1}

InitBackend ==
    /\ InitCtx
    /\ subdoms = <<>>
    /\ bases \in Configs
    /\ sysdb \in {[subdoms |-> <<>>, ranges |-> <<>>, master |-> m] :
                    m \in {MasterIncomplete, MasterComplete}}
    /\ rec = RecIdle

Init == InitBackend /\ single = TRUE

Step(r) ==
    \/ ipa_subdomains_handler(r)
    \/ ipa_subdomains_get_conn_done(r)
    \/ ipa_subdomains_handler_done(r)
    \/ ipa_subdomains_handler_ranges_done(r)
    \/ ipa_subdomains_handler_master_done(r)
    \/ Release(r)

Next == Tick \/ \E r \in Runs : Step(r)

Spec == Init /\ [][Next]_vars

\* a callback of the run in slot r
Callback(r) ==
    \/ ipa_subdomains_get_conn_done(r)
    \/ ipa_subdomains_handler_done(r)
    \/ ipa_subdomains_handler_ranges_done(r)
    \/ ipa_subdomains_handler_master_done(r)

\* The connect and search collaborators complete every request issued to
\* them, and be_req->fn returns.
FairSpec ==
    Spec /\ \A r \in Runs : WF_vars(Callback(r)) /\ WF_vars(Release(r))

(***************************************************************************)
(* Reconciliation properties (checked under SpecRec).                      *)
(***************************************************************************)
\* the harness has applied the reconciler and the last call returned EOK
RecSucceeded == rec.pc >= 1 /\ rec.ret = EOK

NoDupNames(subs) ==
    \A i, j \in 1..Len(subs) : subs[i].name = subs[j].name => i = j

\* no entry of the snapshot has lost its flat name or its identifier
Intact(subs) ==
    \A i \in 1..Len(subs) : subs[i].flat_name # NULL /\ subs[i].id # Dangling

NoDupCn(reply) ==
    \A c, d \in 1..Len(reply) : reply[c].cn = reply[d].cn => c = d

CacheNames(subs) == {subs[i].name : i \in 1..Len(subs)}
ReplyNames(reply) == {reply[c].cn : c \in 1..Len(reply)}

\* the i-th cached entry is the k-th of its name, and the batch holds at
\* least k replies of that name
Survives(C, F, i) ==
    Cardinality({j \in 1..i : C[j].name = C[i].name})
        <= Cardinality({c \in 1..Len(F) : F[c].cn = C[i].name})

\* the c-th reply is the k-th of its name, and the cache holds fewer than k
\* entries of that name
IsNew(C, F, c) ==
    Cardinality({d \in 1..c : F[d].cn = F[c].cn})
        > Cardinality({i \in 1..Len(C) : C[i].name = F[c].cn})

RECURSIVE PickFrom(_, _, _)
\* the subsequence of s at the indices in keep, from index k on
PickFrom(s, keep, k) ==
    IF k > Len(s) THEN <<>>
    ELSE IF k \in keep THEN <<s[k]>> \o PickFrom(s, keep, k + 1)
    ELSE PickFrom(s, keep, k + 1)

Survivors(C, F) == PickFrom(C, {i \in 1..Len(C) : Survives(C, F, i)}, 1)
NewReplies(C, F) == PickFrom(F, {c \in 1..Len(F) : IsNew(C, F, c)}, 1)

\* C5: a successful reconcile never leaves two entries with the same name in
\* the cache, whatever the batch (a name may occur in it more than once).
C5_NoDuplicateNames ==
    (RecSucceeded /\ NoDupNames(rec.C0) /\ Intact(rec.C0))
        => NoDupNames(subdoms)

\* C6: when the cache holds a name that the batch lacks, a successful
\* reconcile removes that entry, keeps the survivors in order and reports
\* changed = TRUE, also when the batch adds no new name.
C6_RemovalReportsChange ==
    (RecSucceeded /\ Intact(rec.C0) /\ NoDupNames(rec.C0)
                  /\ CacheNames(rec.C0) \ ReplyNames(rec.F) # {})
        => /\ rec.changes = TRUE
           /\ CacheNames(subdoms) \subseteq ReplyNames(rec.F)
           /\ [i \in 1..Len(Survivors(rec.C0, rec.F)) |-> subdoms[i].name]
                 = [i \in 1..Len(Survivors(rec.C0, rec.F)) |->
                        Survivors(rec.C0, rec.F)[i].name]

\* C7: when the batch holds a name that the cache lacks, a successful
\* reconcile yields the surviving cached entries, in their order, followed by
\* the new entries in the order of the batch, and reports changed = TRUE.
C7_NewEntriesAppended ==
    (RecSucceeded /\ ReplyNames(rec.F) \ CacheNames(rec.C0) # {})
        => LET sv == Survivors(rec.C0, rec.F)
               nw == NewReplies(rec.C0, rec.F)
           IN  /\ rec.changes = TRUE
               /\ Len(subdoms) = Len(sv) + Len(nw)
               /\ \A k \in 1..Len(sv) :
                     /\ subdoms[k].name = sv[k].name
                     /\ subdoms[k].realm = sv[k].realm
               /\ \A k \in 1..Len(nw) :
                     subdoms[Len(sv) + k]
                         = Subdom(nw[k].cn, nw[k].flat, nw[k].sid)

\* C7's case: a successful reconcile of a cache holding one name with a batch
\* that holds a new name before the cached one: the cached entry survives in
\* front and the new entry follows it.
C7_Witness ==
    /\ RecSucceeded
    /\ Len(rec.C0) = 1
    /\ rec.C0[1].name = NameA
    /\ Len(rec.F) = 2
    /\ rec.F[1].cn = NameB
    /\ rec.F[2].cn = NameA
    /\ Len(subdoms) = 2
    /\ subdoms[1].name = NameA
    /\ subdoms[2].name = NameB
    /\ rec.changes = TRUE

\* the batch holds exactly the names of the cache, each once
SameNames(C, F) ==
    /\ NoDupNames(C)
    /\ NoDupCn(F)
    /\ CacheNames(C) = ReplyNames(F)

\* C8: when the batch holds exactly the names of the cache, reconcile reports
\* changed = FALSE, keeps the entries in order, and every cached entry's flat
\* name and identifier equal those of the reply with its name, also when the
\* fetched flat name or identifier differs from the cached one.
C8_FieldsFollowBatch ==
    (RecSucceeded /\ Intact(rec.C0) /\ SameNames(rec.C0, rec.F))
        => /\ rec.changes = FALSE
           /\ Len(subdoms) = Len(rec.C0)
           /\ \A i \in 1..Len(subdoms) :
                 /\ subdoms[i].name = rec.C0[i].name
                 /\ \A c \in 1..Len(rec.F) :
                       rec.F[c].cn = subdoms[i].name
                           => /\ subdoms[i].flat_name = rec.F[c].flat
                              /\ subdoms[i].id = rec.F[c].sid

\* C9: when reconcile succeeded, a second reconcile with the same batch
\* leaves the cache as the first one left it and reports changed = FALSE.
C9_Idempotent ==
    (rec.pc = 2 /\ rec.ret1 = EOK /\ rec.ret = EOK
                /\ Intact(rec.Cin) /\ NoDupNames(rec.Cin))
        => (rec.changes = FALSE /\ subdoms = rec.C0)


(***************************************************************************)
(* Properties of the discovery run (checked under Spec and FairSpec).      *)
(***************************************************************************)
\* the positions of the events e in the log of q
Pos(q, e) == {k \in 1..Len(q.log) : q.log[k].e = e}

Has(q, e) == Pos(q, e) # {}

\* every event e of the log lies before every event f
Before(q, e, f) == \A k \in Pos(q, e), m \in Pos(q, f) : k < m

\* the search, reconcile and persist calls of a run
StageEvents ==
    {"search_slave", "search_ranges", "search_master", "refresh",
     "store_subdoms", "parse_ranges", "store_ranges", "get_master",
     "store_master"}

\* C1: the completion callback of a request is never called more than once,
\* and when it is called the run context has been freed before, on the DONE
\* and on the FAILED paths alike.
C1_CallbackAtMostOnce ==
    \A r \in Runs :
        /\ run[r].replies <= 1
        /\ Cardinality(Pos(run[r], "reply")) = run[r].replies
        /\ run[r].replies = 1
              => /\ ~run[r].alive
                 /\ Has(run[r], "free")
                 /\ Before(run[r], "free", "reply")

\* C1's case: a run went through the three stages and called back with
\* success.
C1_Witness ==
    /\ run[1].replies = 1
    /\ run[1].dp_err = DP_ERR_OK
    /\ run[1].result = EOK
    /\ Has(run[1], "search_slave")
    /\ Has(run[1], "store_master")

\* C2: every invoked run eventually calls the completion callback, whatever
\* the search-base lists are (an empty slave list included), when every
\* request issued to the connect and search collaborators completes.
C2_EventuallyCompletes ==
    \A r \in Runs : run[r].invoked ~> run[r].replies = 1

\* the step invokes the handler on slot r with a valid backend context
Invoked(r) ==
    /\ ~run[r].invoked
    /\ run'[r].invoked
    /\ run'[r].log[1].e # "ctx_null"

\* the run went directly to DONE with success and made no call
SkippedRun(q) ==
    /\ q.log = <<Ev("gate_skip", 0), Ev("free", 0), Ev("reply", 0)>>
    /\ q.replies = 1
    /\ q.dp_err = DP_ERR_OK
    /\ q.result = EOK

\* a connection attempt is under way
ConnectStarted(q) ==
    /\ q.log = <<Ev("gate_pass", 0), Ev("connect", 0)>>
    /\ q.pend = "connect"
    /\ q.alive
    /\ q.replies = 0

\* the run failed on an allocation before a connection request existed
AllocFailedRun(q) ==
    /\ q.replies = 1
    /\ q.dp_err = DP_ERR_FATAL
    /\ q.result = ENOMEM
    /\ q.pend = "none"
    /\ \A k \in 1..Len(q.log) : q.log[k].e \notin StageEvents

\* C3 as stated: an invocation with a valid context less than 5 seconds after
\* the last refresh goes to DONE with success and makes no call; one 5
\* seconds or more after it starts a connection attempt.
C3_RefreshGate ==
    [][\A r \in Runs :
          Invoked(r) =>
              IF now - last_refreshed < IPA_SUBDOMAIN_REFRESH_LIMIT
              THEN /\ SkippedRun(run'[r])
                   /\ UNCHANGED <<last_refreshed, subdoms, sysdb>>
              ELSE ConnectStarted(run'[r])]_vars

\* C3, amended: an invocation with a valid context less than 5 seconds after
\* the last refresh goes to DONE with success and makes no call; one 5
\* seconds or more after it (exactly 5 included) starts a connection attempt,
\* unless allocating the run context, the connection operation or the
\* connection request fails, and then the run fails with ENOMEM and makes no
\* search, reconcile or persist call.
C3_RefreshGateAmended ==
    [][\A r \in Runs :
          Invoked(r) =>
              IF now - last_refreshed < IPA_SUBDOMAIN_REFRESH_LIMIT
              THEN /\ SkippedRun(run'[r])
                   /\ UNCHANGED <<last_refreshed, subdoms, sysdb>>
              ELSE /\ ConnectStarted(run'[r]) \/ AllocFailedRun(run'[r])
                   /\ UNCHANGED <<last_refreshed, subdoms, sysdb>>]_vars

\* C3's case: a run was invoked exactly 5 seconds after a refresh and is
\* connecting.
C3_Witness ==
    /\ last_refreshed # 0
    /\ now - last_refreshed = IPA_SUBDOMAIN_REFRESH_LIMIT
    /\ ConnectStarted(run[1])

\* C4: when the connection fails while the backend is offline the callback
\* gets the offline outcome, when it fails otherwise it gets a failure; in
\* both cases the run has made no search, reconcile or persist call.
C4_ConnectFailure ==
    \A r \in Runs :
        (run[r].conn # NoConn /\ run[r].conn.ret # EOK)
            => /\ run[r].replies = 1
               /\ run[r].dp_err = IF run[r].conn.dp_error = DP_ERR_OFFLINE
                                  THEN DP_ERR_OFFLINE ELSE DP_ERR_FATAL
               /\ run[r].result = run[r].conn.ret
               /\ \A k \in 1..Len(run[r].log) :
                     run[r].log[k].e \notin StageEvents

\* C4's case: the connection failed while the backend is offline, and the
\* callback was called.
C4_Witness ==
    /\ run[1].conn.ret = ECONNREFUSED
    /\ run[1].conn.dp_error = DP_ERR_OFFLINE
    /\ run[1].replies = 1
    /\ run[1].dp_err = DP_ERR_OFFLINE

\* the order of the stages in the log of q
StageOrder(q) ==
    /\ Has(q, "refresh")
          => \A i \in 1..bases.slave :
                \E k \in Pos(q, "search_slave") : q.log[k].i = i
    /\ Before(q, "search_slave", "refresh")
    /\ Before(q, "refresh", "store_subdoms")
    /\ Before(q, "refresh", "search_ranges")
    /\ Before(q, "store_subdoms", "search_ranges")
    /\ (Ev("refresh", 1) \in {q.log[k] : k \in 1..Len(q.log)}
            /\ Has(q, "search_ranges"))
          => Has(q, "store_subdoms")
    /\ Cardinality(Pos(q, "store_subdoms")) <= 1
    /\ Before(q, "search_ranges", "store_ranges")
    /\ Before(q, "store_ranges", "get_master")
    /\ Has(q, "get_master") => Has(q, "store_ranges")
    /\ Before(q, "get_master", "search_master")
    /\ Has(q, "search_master") => Has(q, "get_master")
    /\ Before(q, "search_master", "store_master")

\* a run that reconciled reached DONE with success
DoneAfterRefresh(q) ==
    /\ q.replies = 1
    /\ q.dp_err = DP_ERR_OK
    /\ q.result = EOK
    /\ Has(q, "refresh")

\* with master info incomplete (and a master search base configured) the run
\* ends only after the master stage
StagesBeforeDone(q) ==
    DoneAfterRefresh(q)
        => /\ Has(q, "search_ranges")
           /\ Has(q, "store_ranges")
           /\ Has(q, "get_master")
           /\ \/ Has(q, "store_master")
              \/ MasterInfoComplete(sysdb.master)
              \/ bases.master = 0

\* the step ends the slave stage of slot r with the results A and B on an
\* empty cache, and issues the ranges search
TwoDomainsStep(r) ==
    /\ run[r].pend = "slave"
    /\ subdoms = <<>>
    /\ run'[r].reply = <<ReplyA, ReplyB>>
    /\ run'[r].pend = "ranges"

Events(q) == {q.log[k] : k \in 1..Len(q.log)}

\* C11: the ranges stage iterates like the slave stage: a run that persists
\* range records has searched every configured ranges search base before, in
\* configured order.
C11_RangesPerBase ==
    \A r \in Runs :
        Has(run[r], "store_ranges")
            => \A i \in 1..bases.ranges :
                  \E k \in Pos(run[r], "search_ranges") :
                      /\ run[r].log[k].i = i
                      /\ \A m \in Pos(run[r], "store_ranges") : k < m

\* the callback was called with a failure and an error code
FailedRun(q) ==
    /\ q.replies = 1
    /\ q.dp_err = DP_ERR_FATAL
    /\ q.result # EOK

\* the callback was called with success
DoneRun(q) ==
    /\ q.replies = 1
    /\ q.dp_err = DP_ERR_OK
    /\ q.result = EOK

\* the step persists the range records of the run in slot r
RangesStored(r) ==
    /\ run[r].pend = "ranges"
    /\ Has(run'[r], "get_master")

\* C12: in the step that persists the range records, unless the run fails
\* there, a run whose master domain info is complete ends with success and
\* has issued no master search, and otherwise the master stage starts: the
\* cursor is 0 on the master list and the search on its first base is issued.
C12_AfterRanges ==
    [][\A r \in Runs :
          (RangesStored(r) /\ ~FailedRun(run'[r]))
              => IF MasterInfoComplete(sysdb.master)
                 THEN /\ DoneRun(run'[r])
                      /\ ~Has(run'[r], "search_master")
                 ELSE /\ run'[r].replies = 0
                      /\ run'[r].pend = "master"
                      /\ run'[r].search_bases = "master"
                      /\ run'[r].search_base_iter = 0
                      /\ run'[r].log[Len(run'[r].log)]
                            = Ev("search_master", 1)]_vars

\* the step is the completion of a master search of the run in slot r
MasterSearchDone(r) == run[r].pend = "master" /\ run'[r] # run[r]

\* what the completion of the master search on base run[r].search_base_iter
\* must lead to
MasterStep(r) ==
    IF run'[r].recv.ret # EOK THEN FailedRun(run'[r])
    ELSE IF run'[r].recv.count > 0
    THEN /\ run'[r].replies = 1
         /\ Pos(run'[r], "search_master") = Pos(run[r], "search_master")
         /\ \/ /\ DoneRun(run'[r])
               /\ Has(run'[r], "store_master")
               /\ sysdb'.master = MasterComplete
            \/ /\ FailedRun(run'[r])
               /\ UNCHANGED sysdb
    ELSE IF run[r].search_base_iter + 1 < bases.master
    THEN \/ /\ run'[r].replies = 0
            /\ run'[r].pend = "master"
            /\ run'[r].search_base_iter = run[r].search_base_iter + 1
            /\ run'[r].log[Len(run'[r].log)]
                  = Ev("search_master", run[r].search_base_iter + 2)
         \/ /\ FailedRun(run'[r])
            /\ run'[r].result = ENOMEM
    ELSE /\ FailedRun(run'[r])
         /\ run'[r].result = EIO

\* C13: the master bases are tried in order; the first non-empty result is
\* persisted and ends the run (with success if the persist succeeds) without
\* a later search; an empty result advances the cursor; when the list is
\* exhausted without a match, whatever its length (0 included), the run fails
\* with the master-record-not-found error.
C13_MasterStage ==
    [][\A r \in Runs :
          /\ MasterSearchDone(r) => MasterStep(r)
          /\ (RangesStored(r) /\ ~MasterInfoComplete(sysdb.master)
                              /\ bases.master = 0)
                => FailedRun(run'[r])]_vars

SearchEvents == {"search_slave", "search_ranges", "search_master"}

PersistEvents == {"store_subdoms", "store_ranges", "store_master"}

\* the last call of the run is one of E, and the run was freed and answered
\* right after it
EndsAfter(q, E) ==
    /\ Len(q.log) >= 3
    /\ q.log[Len(q.log) - 2].e \in E
    /\ q.log[Len(q.log) - 1] = Ev("free", 0)
    /\ q.log[Len(q.log)] = Ev("reply", 0)

\* the run failed right after a call of E
AbortedAfter(q, E) == FailedRun(q) /\ EndsAfter(q, E)

\* C14: a search that completes with an error ends the run at once with a
\* failure carrying its error code; a failed reconciliation, range parse or
\* persistence call ends the run at once with a failure: no search and no
\* persistence call follows it; no search base is searched twice in a stage.
C14_NoRetry ==
    \A r \in Runs :
        /\ run[r].recv.ret \notin {"none", EOK}
              => /\ AbortedAfter(run[r], SearchEvents)
                 /\ run[r].result = run[r].recv.ret
        /\ (Has(run[r], "refresh") /\ last_refreshed = 0)
              => AbortedAfter(run[r], {"refresh"})
        /\ Has(run[r], "refresh")
              => \/ Has(run[r], "store_subdoms")
                 \/ Has(run[r], "search_ranges")
                 \/ AbortedAfter(run[r], {"refresh"})
        /\ Has(run[r], "store_subdoms")
              => \/ Has(run[r], "search_ranges")
                 \/ AbortedAfter(run[r], {"store_subdoms"})
        /\ Has(run[r], "parse_ranges")
              => \/ Has(run[r], "store_ranges")
                 \/ AbortedAfter(run[r], {"parse_ranges"})
        /\ Has(run[r], "store_ranges")
              => \/ Has(run[r], "get_master")
                 \/ AbortedAfter(run[r], {"store_ranges"})
        /\ (run[r].replies = 1 /\ run[r].result \in {ENOENT, EFAULT})
              => AbortedAfter(run[r], {"refresh", "parse_ranges",
                                       "search_master", "get_master"}
                                          \cup PersistEvents)
        /\ \A k, m \in 1..Len(run[r].log) :
              (run[r].log[k].e \in SearchEvents
                  /\ run[r].log[k] = run[r].log[m]) => k = m

\* C14's case: the ranges search completed with an error and the run failed
\* with that error.
C14_Witness ==
    /\ run[1].recv.ret = ETIMEDOUT
    /\ run[1].pend = "none"
    /\ run[1].result = ETIMEDOUT
    /\ FailedRun(run[1])
    /\ run[1].log[Len(run[1].log) - 2] = Ev("search_ranges", 1)

\* the step of r ended the slave stage with a failure of
\* sysdb_update_subdomains
StoreFailed(r) ==
    /\ run[r].pend = "slave"
    /\ AbortedAfter(run'[r], {"store_subdoms"})
    /\ run'[r].result = EFAULT

\* C15: after a run fails because persisting the reconciled subdomain
\* snapshot failed, last_refreshed is zero, so that the next invocation is not
\* skipped by the refresh gate.
C15_StoreErrorResetsGate ==
    [][\A r \in Runs : StoreFailed(r) => last_refreshed' = 0]_vars

\* the step of r called sysdb_update_subdomains
StoreCalled(r) == run[r].pend = "slave" /\ Has(run'[r], "store_subdoms")

\* C16: if persisting the reconciled snapshot fails, the cache in memory after
\* the run is the one from before the run; if it succeeds, the cache in memory
\* and the persisted snapshot both hold the reconciled result.
C16_NoPartialResults ==
    [][\A r \in Runs :
          StoreCalled(r)
              => IF StoreFailed(r)
                 THEN subdoms' = subdoms /\ sysdb'.subdoms = sysdb.subdoms
                 ELSE sysdb'.subdoms = subdoms']_vars

\* the half of C16 that the code satisfies: a failed store leaves the
\* persisted snapshot alone and a successful one persists the cache
StoreEffect ==
    [][\A r \in Runs :
          StoreCalled(r)
              => IF StoreFailed(r)
                 THEN sysdb'.subdoms = sysdb.subdoms
                 ELSE sysdb'.subdoms = subdoms']_vars

(***************************************************************************)
(* The outcome of the reconciler (checked under SpecRec).                  *)
(***************************************************************************)
\* C17: when ipa_subdomains_refresh fails, last_refreshed is zero and the
\* cache is empty; when it succeeds, last_refreshed is the current time,
\* whether or not it reports a change; it fails whenever a fetched entry
\* lacks its name, flat name or identifier.
C17_ReconcileOutcome ==
    rec.pc >= 1
        => /\ IF rec.ret # EOK
              THEN last_refreshed = 0 /\ subdoms = <<>>
              ELSE last_refreshed = now /\ now > 0
           /\ (\E c \in 1..Len(rec.F) : rec.F[c] \in BadReplies) => rec.ret # EOK

\* C17's case: a first call succeeded on a cache that held entries, and a
\* second call on the same batch failed and emptied it.
C17_Witness ==
    /\ rec.pc = 2
    /\ rec.ret1 = EOK
    /\ rec.ret # EOK
    /\ Len(rec.C0) > 0
    /\ subdoms = <<>>
    /\ last_refreshed = 0

(***************************************************************************)
(* The ranges stage and its parser.                                        *)
(***************************************************************************)
\* the step of r completed a ranges search whose result has an entry
\* without cn
RangesParsedBad(r) ==
    /\ run[r].pend = "ranges"
    /\ run'[r].pend # "ranges"
    /\ run'[r].recv.ret = EOK
    /\ \E c \in 1..Len(run'[r].recv.reply) : run'[r].recv.reply[c].cn = NULL

\* C18: when a raw range result lacks its name, whatever precedes it, the
\* parse fails, sysdb_update_ranges is not called, the persisted ranges are
\* left alone and the run ends with a failure.
C18_RangeParseFailure ==
    [][\A r \in Runs :
          RangesParsedBad(r)
              => /\ AbortedAfter(run'[r], {"parse_ranges"})
                 /\ run'[r].result \in {ENOENT, ENOMEM}
                 /\ ~Has(run'[r], "store_ranges")
                 /\ sysdb' = sysdb]_vars

\* C18's case: the ranges search returned a valid entry followed by one
\* without cn, and the run failed on the parse.
C18_Witness ==
    /\ run[1].recv = Recv([ret |-> EOK, reply |-> <<Range1, RangeNoCn>>])
    /\ FailedRun(run[1])
    /\ run[1].result = ENOENT
    /\ EndsAfter(run[1], {"parse_ranges"})

\* what a numeric attribute of a raw result gives in the parsed record
Expected(v) == IF v = Absent THEN 0 ELSE v

SlaveSearchDone(r) == run[r].pend = "slave" /\ run'[r] # run[r]

\* the step left the cache, the gate and the persistent cache alone
NoReconcile(r) ==
    /\ ~Has(run'[r], "refresh")
    /\ UNCHANGED <<subdoms, last_refreshed, sysdb>>

\* the step reconciled the accumulator of r against the cache, once, and
\* persisted the snapshot exactly when the reconciliation succeeded with
\* changes
ReconcileStep(r) ==
    /\ Cardinality(Pos(run'[r], "refresh")) = 1
    /\ \E oom \in BOOLEAN, ub \in UbChoices(subdoms, run'[r].reply) :
         LET rf == ipa_subdomains_refresh(subdoms, run'[r].reply, oom, ub, now)
         IN  /\ subdoms' = rf.subdoms
             /\ last_refreshed' = rf.last_refreshed
             /\ Ev("refresh", IF rf.changes THEN 1 ELSE 0) \in Events(run'[r])
             /\ Has(run'[r], "store_subdoms") <=> (rf.ret = EOK /\ rf.changes)
    /\ Cardinality(Pos(run'[r], "store_subdoms")) <= 1
    /\ Before(run'[r], "refresh", "store_subdoms")
    /\ IF Has(run'[r], "store_subdoms") /\ ~StoreFailed(r)
       THEN sysdb'.subdoms = subdoms'
       ELSE sysdb' = sysdb

\* what the callback of a slave search does
SlaveStep(r) ==
    IF run'[r].recv.ret # EOK
    THEN FailedRun(run'[r]) /\ run'[r].reply = run[r].reply /\ NoReconcile(r)
    ELSE \/ /\ FailedRun(run'[r])
            /\ run'[r].result = ENOMEM
            /\ NoReconcile(r)
         \/ /\ run'[r].reply = run[r].reply \o run'[r].recv.reply
            /\ IF run[r].search_base_iter + 1 < bases.slave
               THEN /\ run'[r].pend = "slave"
                    /\ run'[r].replies = 0
                    /\ run'[r].search_base_iter = run[r].search_base_iter + 1
                    /\ run'[r].log = Append(run[r].log,
                          Ev("search_slave", run[r].search_base_iter + 2))
                    /\ NoReconcile(r)
               ELSE ReconcileStep(r)

\* the slave searches of q were issued on the bases 1, 2, ... in this order,
\* each once, and the reconciliation follows the search on the last base
SlaveOrder(q) ==
    /\ \A k \in Pos(q, "search_slave") :
          /\ q.log[k].i = Cardinality({m \in Pos(q, "search_slave") : m <= k})
          /\ q.log[k].i <= bases.slave
    /\ Cardinality(Pos(q, "refresh")) <= 1
    /\ Has(q, "refresh")
          => /\ Cardinality(Pos(q, "search_slave")) = bases.slave
             /\ Before(q, "search_slave", "refresh")
    /\ Has(q, "store_subdoms") => Ev("refresh", 1) \in Events(q)

\* C20: one search is issued per slave search base, in the order of the list;
\* each completed search appends its results to the accumulator and advances
\* the cursor by one; the reconciler runs once, in the callback of the search
\* on the last base, on the concatenation of all results; the snapshot is
\* persisted exactly when that reconciliation reported a change.
C20_SlaveIteration ==
    /\ [](\A r \in Runs : SlaveOrder(run[r]))
    /\ [][\A r \in Runs : SlaveSearchDone(r) => SlaveStep(r)]_vars

\* C20's case: two slave bases were searched in order, their results A and B
\* were accumulated and reconciled, and the snapshot of both was persisted.
C20_Witness ==
    /\ bases.slave = 2
    /\ run[1].reply = <<ReplyA, ReplyB>>
    /\ Pos(run[1], "search_slave") = {3, 4}
    /\ Ev("refresh", 1) \in Events(run[1])
    /\ Has(run[1], "store_subdoms")
    /\ Len(subdoms) = 2
    /\ sysdb.subdoms = subdoms

(***************************************************************************)
(* Frame of the cache and the gate (checked under Spec).                   *)
(***************************************************************************)
\* the step of r is the reconciliation step of its run
ReconcileOf(r) ==
    /\ run[r].pend = "slave"
    /\ ~Has(run[r], "refresh")
    /\ Has(run'[r], "refresh")

\* the step takes the cache and the gate from their values before
\* ipa_subdomains_refresh to their values after it
WholeReconcile(r) ==
    \E oom \in BOOLEAN, ub \in UbChoices(subdoms, run'[r].reply) :
        LET rf == ipa_subdomains_refresh(subdoms, run'[r].reply, oom, ub, now)
        IN  subdoms' = rf.subdoms /\ last_refreshed' = rf.last_refreshed

\* C21: the cache and last_refreshed change only in the reconciliation step,
\* which is one callback from the cache before the reconciliation to the
\* cache after it; the gate check, the connection, the other search
\* completions, the ranges stage and the master stage leave them unchanged.
C21_Frame ==
    [][/\ (subdoms' # subdoms \/ last_refreshed' # last_refreshed)
             => \E r \in Runs : ReconcileOf(r)
       /\ \A r \in Runs : ReconcileOf(r) => WholeReconcile(r)]_vars

\* C21's case: a run reconciled, time passed, and its ranges and master
\* stages ran to the end with the cache and the gate as the reconciliation
\* left them.
C21_Witness ==
    /\ Has(run[1], "refresh")
    /\ Has(run[1], "store_ranges")
    /\ Has(run[1], "store_master")
    /\ run[1].replies = 1
    /\ Len(subdoms) > 0
    /\ last_refreshed > 0
    /\ last_refreshed < now

(***************************************************************************)
(* The backend with the outcome of the last run remembered: SpecHist is    *)
(* Spec, and when be_req->fn returns rec keeps whether the run failed in   *)
(* its ranges or master stage, and when.                                   *)
(***************************************************************************)
NoHist == [late |-> FALSE, end |-> 0]

\* the run failed after its first ranges search was issued
LateFailure(q) == FailedRun(q) /\ Has(q, "search_ranges")

InitHist ==
    /\ InitCtx
    /\ single = TRUE
    /\ subdoms = <<>>
    /\ bases \in Configs
    /\ sysdb \in {[subdoms |-> <<>>, ranges |-> <<>>, master |-> m] :
                    m \in {MasterIncomplete, MasterComplete}}
    /\ rec = NoHist

\* be_req->fn returns
ReleaseHist(r) ==
    /\ InCallback(run[r])
    /\ run' = [run EXCEPT ![r] = IdleRun]
    /\ rec' = IF LateFailure(run[r]) THEN [late |-> TRUE, end |-> now]
              ELSE NoHist
    /\ UNCHANGED <<now, last_refreshed, subdoms, bases, sysdb, single>>

StepHist(r) ==
    \/ ipa_subdomains_handler(r)
    \/ ipa_subdomains_get_conn_done(r)
    \/ ipa_subdomains_handler_done(r)
    \/ ipa_subdomains_handler_ranges_done(r)
    \/ ipa_subdomains_handler_master_done(r)
    \/ ReleaseHist(r)

NextHist == Tick \/ \E r \in Runs : StepHist(r)

SpecHist == InitHist /\ [][NextHist]_vars

\* the step of r is a callback of the ranges or master stage that fails the
\* run
LateFailStep(r) ==
    /\ run[r].pend \in {"ranges", "master"}
    /\ FailedRun(run'[r])

\* a failure in the ranges or master stage leaves the gate as the
\* reconciliation of the run set it, and the cache as it is
LateFailKeeps ==
    \A r \in Runs :
        LateFailStep(r)
            => /\ UNCHANGED <<last_refreshed, subdoms>>
               /\ last_refreshed > 0
               /\ last_refreshed <= now

\* C22 as stated: a run that fails in the ranges or master stage leaves
\* last_refreshed as its reconciliation set it and does not clear the cache,
\* and an invocation less than 5 seconds after that failed run is skipped by
\* the gate and reports success.
C22_FailureAsymmetry ==
    [][/\ LateFailKeeps
       /\ \A r \in Runs :
             (Invoked(r) /\ rec.late
                 /\ now - rec.end < IPA_SUBDOMAIN_REFRESH_LIMIT)
                 => SkippedRun(run'[r])]_vars

\* C22, amended: a run that fails in the ranges or master stage leaves
\* last_refreshed as its reconciliation set it and does not clear the cache,
\* and the next invocation is skipped by the gate and reports success exactly
\* when it comes less than 5 seconds after that run's reconciliation (which
\* is not later, and may be earlier, than its failure).
C22_FailureAsymmetryAmended ==
    [][/\ LateFailKeeps
       /\ \A r \in Runs :
             (Invoked(r) /\ rec.late)
                 => /\ last_refreshed <= rec.end
                    /\ SkippedRun(run'[r])
                          <=> now - last_refreshed < IPA_SUBDOMAIN_REFRESH_LIMIT]_vars

\* C22's case: a run failed in its ranges or master stage, time passed, and
\* the next invocation was skipped with success.
C22_Witness ==
    /\ rec.late
    /\ now > rec.end
    /\ now - last_refreshed < IPA_SUBDOMAIN_REFRESH_LIMIT
    /\ Len(subdoms) > 0
    /\ SkippedRun(run[1])

(***************************************************************************)
(* Names of cached entries (checked under SpecRec).                        *)
(***************************************************************************)
\* the values of field f the replies named name carry in the batch F
FetchedFor(F, name, f) == {F[c][f] : c \in {d \in 1..Len(F) : F[d].cn = name}}

\* C23: after a successful reconcile the entries that stay in the cache are
\* the first ones of the new cache, each with the name (and realm) it had
\* before, and each field of such an entry is the one it had or comes from a
\* fetched entry with exactly its name; the other entries are new.
C23_NameImmutable ==
    RecSucceeded
        => LET sv == Survivors(rec.C0, rec.F)
           IN  /\ Len(subdoms) >= Len(sv)
               /\ \A k \in 1..Len(sv) :
                     /\ subdoms[k].name = sv[k].name
                     /\ subdoms[k].realm = sv[k].realm
                     /\ subdoms[k].flat_name
                           \in {sv[k].flat_name, NULL}
                                  \cup FetchedFor(rec.F, sv[k].name, "flat")
                     /\ subdoms[k].id
                           \in {sv[k].id, Dangling}
                                  \cup FetchedFor(rec.F, sv[k].name, "sid")
               /\ \A k \in (Len(sv) + 1)..Len(subdoms) :
                     \E c \in 1..Len(rec.F) :
                         /\ IsNew(rec.C0, rec.F, c)
                         /\ subdoms[k] = Subdom(rec.F[c].cn, rec.F[c].flat,
                                                rec.F[c].sid)

\* C23's case: the cache held the name ad, the batch held AD (other flat
\* name) and ad, and after two successful reconciles the entry ad is still
\* first, under its name, and AD was added after it.
C23_Witness ==
    /\ rec.pc = 2
    /\ rec.ret1 = EOK
    /\ RecSucceeded
    /\ rec.Cin = <<Subdom(NameA, Flat2, Sid1)>>
    /\ rec.F = <<Attrs(NameB, Flat1, Sid1), Attrs(NameA, Flat2, Sid1)>>
    /\ subdoms = <<Subdom(NameA, Flat2, Sid1), Subdom(NameB, Flat1, Sid1)>>

(***************************************************************************)
(* The backend with a caller that does not serialize its invocations:      *)
(* SpecConc is Spec with single = FALSE, on one search base per stage.     *)
(***************************************************************************)
InitConc ==
    /\ now = StartTime + MaxTicks - 1
    /\ last_refreshed = 0
    /\ run = [r \in Runs |-> IdleRun]
    /\ single = FALSE
    /\ subdoms = <<>>
    /\ bases = [slave |-> 1, ranges |-> 1, master |-> 1]
    /\ sysdb = [subdoms |-> <<>>, ranges |-> <<>>, master |-> MasterIncomplete]
    /\ rec = RecIdle

SpecConc == InitConc /\ [][Next]_vars

\* the step invokes the handler in slot r while the run of another slot is
\* in flight and has not reconciled, 5 seconds or more after the last refresh
SecondInvocation(r) ==
    /\ Invoked(r)
    /\ now - last_refreshed >= IPA_SUBDOMAIN_REFRESH_LIMIT
    /\ \E x \in Runs \ {r} : Active(run[x]) /\ ~Has(run[x], "refresh")

\* C24: the gate does not enforce single flight: an invocation made while a
\* first run is in flight and has not reconciled, 5 seconds or more after the
\* last refresh, passes the gate, and (unless an allocation fails) a second
\* run is active next to the first on the same context.
C24_NoMutualExclusion ==
    [][\A r \in Runs :
          SecondInvocation(r)
              => /\ run'[r].log[1] = Ev("gate_pass", 0)
                 /\ ConnectStarted(run'[r]) \/ AllocFailedRun(run'[r])
                 /\ \A x \in Runs \ {r} : run'[x] = run[x]
                 /\ UNCHANGED <<last_refreshed, subdoms, sysdb>>]_vars

\* C24's case: two runs are in flight on the context, the first in its slave
\* stage, the second connecting.
C24_Witness ==
    /\ Active(run[1])
    /\ run[1].pend = "slave"
    /\ ConnectStarted(run[2])
    /\ last_refreshed = 0

(***************************************************************************)
(* Outcomes of a run (checked under Spec).                                 *)
(***************************************************************************)
\* the step of r reconciled with success and did not fail to persist
ReconciledAndStored(r) ==
    /\ ReconcileOf(r)
    /\ last_refreshed' # 0
    /\ ~StoreFailed(r)

\* C25: after every run whose reconciliation and (if taken) subdomain
\* persistence succeeded, the persisted snapshot holds the names of the cache
\* in memory; a subdomain that disappeared upstream is in neither.
C25_PersistedMatchesCache ==
    [][\A r \in Runs :
          ReconciledAndStored(r)
              => /\ CacheNames(sysdb'.subdoms) = CacheNames(subdoms')
                 /\ CacheNames(subdoms') \subseteq ReplyNames(run'[r].reply)]_vars

\* C26: a run that the gate did not skip reports the outcome Ok (here: with
\* the error code zero) only if it persisted range records and the master
\* domain info is complete when it completes, whatever the length of the
\* master search-base list.
C26_OkOnlyIfComplete ==
    \A r \in Runs :
        (DoneRun(run[r]) /\ ~Has(run[r], "gate_skip"))
            => /\ Has(run[r], "store_ranges")
               /\ MasterInfoComplete(sysdb.master)

\* C27: whenever the completion callback gets a non-zero error code its
\* outcome is not Ok, and whenever its outcome is Ok the error code is zero,
\* also when the connection succeeded and issuing the first slave search
\* failed on an allocation.
C27_OutcomeConsistent ==
    \A r \in Runs :
        run[r].replies = 1
            => /\ run[r].result # EOK => run[r].dp_err # DP_ERR_OK
               /\ run[r].dp_err = DP_ERR_OK => run[r].result = EOK

\* C28: with an empty ranges search-base list a run whose slave stage and
\* reconciliation (and persistence, if taken) succeeded fails with EINVAL
\* without searching, parsing or persisting ranges and without reading the
\* master domain info; the reconciled cache, its persisted snapshot and the
\* refreshed last_refreshed stay in effect.
C28_NoRangesBase ==
    [][\A r \in Runs :
          (ReconciledAndStored(r) /\ bases.ranges = 0)
              => /\ FailedRun(run'[r])
                 /\ run'[r].result = EINVAL
                 /\ \A e \in {"search_ranges", "parse_ranges", "store_ranges",
                              "get_master", "search_master", "store_master"} :
                       ~Has(run'[r], e)
                 /\ sysdb'.ranges = sysdb.ranges
                 /\ sysdb'.master = sysdb.master
                 /\ WholeReconcile(r)
                 /\ last_refreshed' = now
                 /\ IF Has(run'[r], "store_subdoms")
                    THEN sysdb'.subdoms = subdoms'
                    ELSE sysdb'.subdoms = sysdb.subdoms]_vars

\* C28's case: no ranges search base; the run reconciled and persisted one
\* subdomain and failed with EINVAL.
C28_Witness ==
    /\ bases.ranges = 0
    /\ FailedRun(run[1])
    /\ run[1].result = EINVAL
    /\ EndsAfter(run[1], {"store_subdoms"})
    /\ Len(subdoms) = 1
    /\ sysdb.subdoms = subdoms
    /\ last_refreshed = now

(***************************************************************************)
(* Well-formed cache entries (checked under SpecRec).                      *)
(***************************************************************************)
\* the entry has its name, realm, flat name and identifier, and its realm is
\* its name in upper case
WellFormed(sd) ==
    /\ sd.name # NULL
    /\ sd.realm = name_to_realm(sd.name)
    /\ sd.flat_name # NULL
    /\ sd.id \notin {NULL, Dangling}

\* C29: after a successful reconcile of a cache of well-formed entries every
\* entry of the cache is well formed, also an entry whose fetched flat name
\* or identifier differs from the cached one.
C29_EntriesWellFormed ==
    (RecSucceeded /\ \A i \in 1..Len(rec.Cin) : WellFormed(rec.Cin[i]))
        => \A i \in 1..Len(subdoms) : WellFormed(subdoms[i])

(***************************************************************************)
(* Requests of a run (checked under Spec).                                 *)
(***************************************************************************)
RequestEvents == SearchEvents \cup {"connect"}

\* the connect and search requests the run has issued
Issued(q) == Cardinality({k \in 1..Len(q.log) : q.log[k].e \in RequestEvents})

\* the request the run awaits is the last call it made
AwaitsLast(q) ==
    q.pend # "none"
        => /\ Len(q.log) > 0
           /\ q.log[Len(q.log)].e
                 = IF q.pend = "connect" THEN "connect" ELSE "search_" \o q.pend

\* the run that has completed is at rest: nothing pending, context freed,
\* the reply its last event
Completed(q) ==
    q.replies >= 1
        => /\ q.replies = 1
           /\ q.pend = "none"
           /\ ~q.alive
           /\ q.log[Len(q.log)] = Ev("reply", 0)
           /\ Cardinality(Pos(q, "reply")) = 1

\* what a step may do to the run of slot r
RequestStep(r) ==
    /\ run[r].replies >= 1 => run'[r] \in {run[r], IdleRun}
    /\ (Active(run[r]) /\ run'[r] # run[r])
          => /\ run[r].pend # "none"
             /\ Issued(run'[r]) <= Issued(run[r]) + 1
             /\ run'[r].pend # "none" => Issued(run'[r]) = Issued(run[r]) + 1
    /\ (~run[r].invoked /\ run'[r].invoked)
          => /\ Issued(run'[r]) <= 1
             /\ run'[r].pend # "none" => Issued(run'[r]) = 1

\* C30: once the completion callback of a run has been called the run issues
\* no search and no persistence call and none of its search completions is
\* processed; a run that has not completed awaits at most one connect or
\* search request: each of its steps is the completion of the one request it
\* awaits and issues at most one new request.
C30_OneOutstanding ==
    /\ [](\A r \in Runs : Completed(run[r]) /\ AwaitsLast(run[r]))
    /\ [][\A r \in Runs : RequestStep(r)]_vars

\* C30's case: a run issued its connect and five searches one after the
\* other and has completed.
C30_Witness ==
    /\ run[1].replies = 1
    /\ Issued(run[1]) >= 6
    /\ Has(run[1], "search_master")
    /\ run[1].pend = "none"
=============================================================================
